---------------------------- MODULE Spec2Model ----------------------------
(***************************************************************************)
(* G-DICE: cross-entropy search over stochastic finite-state controllers.  *)
(*                                                                         *)
(* The module models                                                       *)
(*   - FiniteStateController (src/generalGDICE.py): the probability        *)
(*     tables, reset, sampling and updateProbabilitiesFromSamples;         *)
(*   - runGDICEOnEnvironment, evaluateSample and evaluateSamplesMultiEnv   *)
(*     (src/GDICE_Python/Algorithms.py);                                   *)
(*   - evaluateSample of src/generalGDICE.py.                              *)
(*                                                                         *)
(* numpy float64 numbers are modelled as exact rationals <<n, d>> in       *)
(* lowest terms with d > 0; -inf and nan are the two pairs with d = 0.     *)
(* Python's None is <<>> for array- and float-typed values, NoneInt for    *)
(* integer-typed ones and the string "None" for object-typed ones.         *)
(* A raised Python exception is pc = "raised" with its class in error.     *)
(***************************************************************************)
EXTENDS Integers, Sequences, FiniteSets, TLC

VARIABLES
    \* ---- the FiniteStateController object
    numNodes, numActions, numObservations, currentNode,
    actionProbabilities,          \* [node][action]
    nodeTransitionProbabilities,  \* [startNode][destNode][observation]
    \* ---- the arguments of a run
    env, params, parallel, convergenceThreshold, saveFrequency,
    \* ---- the locals of runGDICEOnEnvironment
    pc, error, iteration,
    bestActionProbs, bestNodeTransitionProbs, bestValue, bestValueVariance,
    bestValueAtEachIteration, bestStdDevAtEachIteration,
    worstValueOfPreviousIteration, allValues, allStdDev,
    estimatedConvergenceIteration,
    \* ---- the single-trajectory environment object's state
    envState,
    \* ---- history: what each iteration did, what saveResults was handed,
    \* ---- and the evaluator/update calls made directly on the objects
    iterLog, saved, calls,
    \* ---- one batch rollout of evaluateFSCOnEnvironment: the population, the
    \* ---- MultiActionPOMDP object's state array and the locals of the while loop
    rollout

ctrlVars == <<numNodes, numActions, numObservations, currentNode,
              actionProbabilities, nodeTransitionProbabilities>>
argVars  == <<env, params, parallel, convergenceThreshold, saveFrequency>>
runVars  == <<iteration, bestActionProbs, bestNodeTransitionProbs, bestValue,
              bestValueVariance, bestValueAtEachIteration,
              bestStdDevAtEachIteration, worstValueOfPreviousIteration,
              allValues, allStdDev, estimatedConvergenceIteration>>
vars == <<ctrlVars, argVars, runVars, pc, error, envState, iterLog, saved, calls, rollout>>

-----------------------------------------------------------------------------
(* Bounds of the model                                                     *)

\* numIterations is drawn from 1..MaxIterations
MaxIterations == 3
\* Evaluator calls made one after the other on one environment object
MaxCalls == 2
\* Direct calls of the controller's reset / update explored
MaxUpdates == 2

-----------------------------------------------------------------------------
(* float64 as exact rationals                                              *)

None == <<>>
NoneInt == -1
NINF == <<-1, 0>>
NaN == <<0, 0>>

Abs(x) == IF x < 0 THEN -x ELSE x

RECURSIVE GCD(_, _)
GCD(a, b) == IF b = 0 THEN a ELSE GCD(b, a % b)

Rat(n, d) == LET g == GCD(Abs(n), d) IN <<n \div g, d \div g>>

Zero == <<0, 1>>
One == <<1, 1>>
Half == <<1, 2>>

RAdd(a, b) ==
    IF a = NINF \/ b = NINF THEN NINF
    ELSE Rat(a[1] * b[2] + b[1] * a[2], a[2] * b[2])

RMul(a, b) == Rat(a[1] * b[1], a[2] * b[2])

RSub(a, b) == RAdd(a, <<-b[1], b[2]>>)

\* a < b on floats; every comparison with nan is false
RLess(a, b) ==
    IF a = NaN \/ b = NaN THEN FALSE
    ELSE IF a = NINF THEN b # NINF
    ELSE IF b = NINF THEN FALSE
    ELSE a[1] * b[2] < b[1] * a[2]

\* a >= b on floats
RGeq(a, b) ==
    IF a = NaN \/ b = NaN THEN FALSE
    ELSE IF b = NINF THEN TRUE
    ELSE IF a = NINF THEN FALSE
    ELSE a[1] * b[2] >= b[1] * a[2]

RECURSIVE RPow(_, _)
RPow(a, n) == IF n = 0 THEN One ELSE RMul(a, RPow(a, n - 1))

RECURSIVE RSum(_, _)
\* sum of f[0..n-1]
RSum(f, n) == IF n = 0 THEN Zero ELSE RAdd(RSum(f, n - 1), f[n - 1])

Range(n) == 0 .. (n - 1)

\* shape[-1] of a two- or three-dimensional array whose last axis is the sample axis
LastAxis2(a) == Cardinality(DOMAIN a[0])
LastAxis3(a) == Cardinality(DOMAIN a[0][0])

-----------------------------------------------------------------------------
(* FiniteStateController                                                   *)

initActionNodeProbabilityTable(nN, nA) ==
    [n \in Range(nN) |-> [a \in Range(nA) |-> Rat(1, nA)]]

initObservationNodeTransitionProbabilityTable(nN, nO) ==
    [s \in Range(nN) |-> [d \in Range(nN) |-> [o \in Range(nO) |-> Rat(1, nN)]]]

\* controller.reset(): setNode(None) and both tables back to uniform
reset ==
    /\ currentNode' = None
    /\ actionProbabilities' = initActionNodeProbabilityTable(numNodes, numActions)
    /\ nodeTransitionProbabilities' =
           initObservationNodeTransitionProbabilityTable(numNodes, numObservations)
    /\ UNCHANGED <<numNodes, numActions, numObservations>>

\* npr.choice(..., p = row) refuses a row with a negative entry or whose sum is not 1
ValidDistribution(row, n) ==
    /\ \A i \in Range(n) : RGeq(row[i], Zero)
    /\ RSum(row, n) = One

\* the rows the two sampling methods hand to npr.choice
ActionRow(aP, n) == aP[n]
TransitionRow(nP, nN, s, o) == [d \in Range(nN) |-> nP[s][d][o]]

SamplingRaises(aP, nP, nN, nA, nO) ==
    \/ \E n \in Range(nN) : ~ValidDistribution(ActionRow(aP, n), nA)
    \/ \E s \in Range(nN), o \in Range(nO) :
           ~ValidDistribution(TransitionRow(nP, nN, s, o), nN)

\* npr.choice(np.arange(n), size = numSamples, p = row): every array of
\* numSamples draws, each an index of positive probability
Choice(n, numSamples, row) ==
    [Range(numSamples) -> {i \in Range(n) : RLess(Zero, row[i])}]

\* np.array([row_0, ..., row_(n-1)]) for every way to pick row_i in rows[i]
RECURSIVE Stack(_, _)
Stack(n, rows) ==
    IF n = 0 THEN {<<>>}
    ELSE { [i \in Range(n) |-> IF i = n - 1 THEN last ELSE init[i]] :
             init \in Stack(n - 1, rows), last \in rows[n - 1] }

\* sampleActionFromAllNodes: every table [node][sample] the draw can return
sampleActionFromAllNodes(aP, nN, nA, numSamples) ==
    Stack(nN, [nodeIndex \in Range(nN) |->
                  Choice(nA, numSamples, ActionRow(aP, nodeIndex))])

\* sampleObservationTransitionFromAllNodes: every table [node][sample]
sampleObservationTransitionFromAllNodes(nP, nN, observationIndex, numSamples) ==
    Stack(nN, [nodeIndex \in Range(nN) |->
                  Choice(nN, numSamples,
                         TransitionRow(nP, nN, nodeIndex, observationIndex))])

\* sampleAllObservationTransitionsFromAllNodes: every table [obs][node][sample]
sampleAllObservationTransitionsFromAllNodes(nP, nN, nO, numSamples) ==
    Stack(nO, [obsIndex \in Range(nO) |->
                  sampleObservationTransitionFromAllNodes(nP, nN, obsIndex, numSamples)])

\* the node-transition share added at the source column in place of the
\* destination row
AddSample_SourceRow(tables, actions, nodeObs, inc, sample) ==
    [aP |-> [n \in DOMAIN tables.aP |->
               [a \in DOMAIN tables.aP[n] |->
                  IF a = actions[n][sample]
                  THEN RAdd(tables.aP[n][a], inc) ELSE tables.aP[n][a]]],
     nP |-> [s \in DOMAIN tables.nP |->
               [d \in DOMAIN tables.nP[s] |->
                  [o \in DOMAIN tables.nP[s][d] |->
                     IF s = nodeObs[o][d][sample]
                     THEN RAdd(tables.nP[s][d][o], inc) ELSE tables.nP[s][d][o]]]]]

\* one pass of the loop "for sample in range(numSamples)" of
\* updateProbabilitiesFromSamples: the sample's action at every node and its
\* transition at every (observation, startNode) gain inc
AddSample(tables, actions, nodeObs, inc, sample) ==
    [aP |-> [n \in DOMAIN tables.aP |->
               [a \in DOMAIN tables.aP[n] |->
                  IF a = actions[n][sample]
                  THEN RAdd(tables.aP[n][a], inc) ELSE tables.aP[n][a]]],
     nP |-> [s \in DOMAIN tables.nP |->
               [d \in DOMAIN tables.nP[s] |->
                  [o \in DOMAIN tables.nP[s][d] |->
                     IF d = nodeObs[o][s][sample]
                     THEN RAdd(tables.nP[s][d][o], inc) ELSE tables.nP[s][d][o]]]]]

\* the passes for sample, sample + 1, ..., numSamples - 1
RECURSIVE AddSamples(_, _, _, _, _, _)
AddSamples(tables, actions, nodeObs, inc, sample, numSamples) ==
    IF sample >= numSamples THEN tables
    ELSE AddSamples(AddSample(tables, actions, nodeObs, inc, sample),
                    actions, nodeObs, inc, sample + 1, numSamples)

\* The decay left out: the tables keep their full mass before the elites' share
\* is added.
Decay_LeftOut(tables, learningRate) == tables

\* the decay "table * (1 - learningRate)"
Decay(tables, learningRate) ==
    LET keep == RSub(One, learningRate)
    IN [aP |-> [n \in DOMAIN tables.aP |->
                  [a \in DOMAIN tables.aP[n] |-> RMul(tables.aP[n][a], keep)]],
        nP |-> [s \in DOMAIN tables.nP |->
                  [d \in DOMAIN tables.nP[s] |->
                     [o \in DOMAIN tables.nP[s][d] |-> RMul(tables.nP[s][d][o], keep)]]]]

\* updateProbabilitiesFromSamples(actions, nodeObs, learningRate) on tables aP, nP,
\* for the two-dimensional actions[node][sample] and three-dimensional
\* nodeObs[obs][node][sample] its callers pass.  len(actions) is the length of
\* the first axis, the number of nodes.
updateProbabilitiesFromSamples(aP, nP, actions, nodeObs, learningRate) ==
    LET lenActions == Cardinality(DOMAIN actions)
        numSamples == LastAxis2(actions)
    IN IF lenActions = 0
       THEN [raised |-> "", aP |-> aP, nP |-> nP]
       ELSE IF numSamples # LastAxis3(nodeObs)
       THEN [raised |-> "AssertionError", aP |-> aP, nP |-> nP]
       ELSE IF numSamples = 0      \* weightPerSample = 1/actions.shape[-1]
       THEN [raised |-> "ZeroDivisionError", aP |-> aP, nP |-> nP]
       ELSE LET weightPerSample == Rat(1, numSamples)
                new == AddSamples(Decay([aP |-> aP, nP |-> nP], learningRate),
                                  actions, nodeObs,
                                  RMul(learningRate, weightPerSample), 0, numSamples)
            IN [raised |-> "", aP |-> new.aP, nP |-> new.nP]

-----------------------------------------------------------------------------
(* Environments: deterministic POMDPs given by their tables                *)
(*   T[s][a] next state, O[s][a][s2] observation, R[s][a][s2][o] reward,   *)
(*   D[s][a] episode end (read only when episodic)                         *)

\* Two states that alternate whatever the action, the observation names the
\* new state, every step pays 1, the episode never ends, discount 1.
EnvTrivial ==
    [id |-> "trivial", numStates |-> 2, start |-> 0,
     action_space_n |-> 2, observation_space_n |-> 2,
     T |-> [s \in 0..1 |-> [a \in 0..1 |-> 1 - s]],
     O |-> [s \in 0..1 |-> [a \in 0..1 |-> [s2 \in 0..1 |-> s2]]],
     R |-> [s \in 0..1 |-> [a \in 0..1 |-> [s2 \in 0..1 |-> [o \in 0..1 |-> One]]]],
     D |-> [s \in 0..1 |-> [a \in 0..1 |-> FALSE]],
     episodic |-> FALSE, discount |-> One]

\* One observation; the action chooses the next state; action 1 pays 1 from
\* state 0 and 2 from state 1, action 0 pays nothing; discount 1/2.
EnvBlind ==
    [id |-> "blind", numStates |-> 2, start |-> 0,
     action_space_n |-> 2, observation_space_n |-> 1,
     T |-> [s \in 0..1 |-> [a \in 0..1 |-> a]],
     O |-> [s \in 0..1 |-> [a \in 0..1 |-> [s2 \in 0..1 |-> 0]]],
     R |-> [s \in 0..1 |-> [a \in 0..1 |-> [s2 \in 0..1 |-> [o \in 0..0 |->
              IF a = 0 THEN Zero ELSE IF s = 1 THEN <<2, 1>> ELSE One]]]],
     D |-> [s \in 0..1 |-> [a \in 0..1 |-> FALSE]],
     episodic |-> FALSE, discount |-> Half]

\* An episodic chain of three states with one observation and discount 1:
\* action 0 moves one state on and ends the episode from the last state,
\* action 1 ends the episode from any state; every step pays 1.
EnvEpisodic ==
    [id |-> "episodic", numStates |-> 3, start |-> 0,
     action_space_n |-> 2, observation_space_n |-> 1,
     T |-> [s \in 0..2 |-> [a \in 0..1 |-> IF s < 2 THEN s + 1 ELSE s]],
     O |-> [s \in 0..2 |-> [a \in 0..1 |-> [s2 \in 0..2 |-> 0]]],
     R |-> [s \in 0..2 |-> [a \in 0..1 |-> [s2 \in 0..2 |-> [o \in 0..0 |-> One]]]],
     D |-> [s \in 0..2 |-> [a \in 0..1 |-> a = 1 \/ s = 2]],
     episodic |-> TRUE, discount |-> One]

\* a[i] for a numpy array of length n: a negative index counts from the end
PyIndex(i, n) == IF i < 0 THEN i + n ELSE i

\* gamma = env.discount if env.discount is not None else 1
Gamma(e) == IF e.discount = None THEN One ELSE e.discount

\* One step of one trajectory of a POMDP from state s under action a.
\* A finished trajectory is state -1.
POMDP_step(e, s, a) ==
    LET cur == PyIndex(s, e.numStates)
        newState == e.T[cur][a]
        obs == e.O[cur][a][newState]
        reward == e.R[cur][a][newState][obs]
        done == IF e.episodic THEN e.D[cur][a] ELSE FALSE
    IN [state |-> IF done THEN -1 ELSE newState,
        obs |-> obs, reward |-> reward, done |-> done]

\* MultiPOMDP.step(actions): every trajectory that is not finished is stepped
\* with its own action; a finished one is left out of the call and reports
\* observation -1, reward 0 and done.  (GDICE_Python/Domains.py is not among
\* the sources: the wrapper is as the specification's section 4.3 has it.)
MultiPOMDP_step(e, states, actions, numTrajectories) ==
    [i \in Range(numTrajectories) |->
        IF states[i] = -1
        THEN [state |-> -1, obs |-> -1, reward |-> Zero, done |-> TRUE]
        ELSE POMDP_step(e, states[i], actions[i])]

\* MultiPOMDP.reset(): every trajectory at the environment's start state
MultiPOMDP_reset(e, numTrajectories) == [i \in Range(numTrajectories) |-> e.start]

-----------------------------------------------------------------------------
(* The evaluators                                                          *)

\* The pass with "values = rewards * ..." for "values += rewards * ...": the
\* return keeps only the last step's reward.
MultiEnvPass_NoAccumulation(e, gamma, actionTransitions, nodeObservationTransitions, st) ==
    LET numSamples == LastAxis2(actionTransitions)
        numObs == Cardinality(DOMAIN nodeObservationTransitions)
        discount == RPow(gamma, st.currentTimestep)
        step == MultiPOMDP_step(e, st.states,
                    [i \in Range(numSamples) |-> actionTransitions[st.currentNodes[i]][i]],
                    numSamples)
    IN      [states |-> [i \in Range(numSamples) |-> step[i].state],
             currentNodes |-> [i \in Range(numSamples) |->
                 nodeObservationTransitions[PyIndex(step[i].obs, numObs)]
                                           [st.currentNodes[i]][i]],
             values |-> [i \in Range(numSamples) |-> RMul(step[i].reward, discount)],
             isDones |-> [i \in Range(numSamples) |-> step[i].done],
             currentTimestep |-> st.currentTimestep + 1]

\* One pass of the while loop of evaluateSamplesMultiEnv (Algorithms.py lines
\* 157-160) from rollout state st
MultiEnvPass(e, gamma, actionTransitions, nodeObservationTransitions, st) ==
    LET numSamples == LastAxis2(actionTransitions)
        numObs == Cardinality(DOMAIN nodeObservationTransitions)
        discount == RPow(gamma, st.currentTimestep)
        step == MultiPOMDP_step(e, st.states,
                    [i \in Range(numSamples) |-> actionTransitions[st.currentNodes[i]][i]],
                    numSamples)
    IN      [states |-> [i \in Range(numSamples) |-> step[i].state],
             currentNodes |-> [i \in Range(numSamples) |->
                 nodeObservationTransitions[PyIndex(step[i].obs, numObs)]
                                           [st.currentNodes[i]][i]],
             values |-> [i \in Range(numSamples) |->
                 RAdd(st.values[i], RMul(step[i].reward, discount))],
             isDones |-> [i \in Range(numSamples) |-> step[i].done],
             currentTimestep |-> st.currentTimestep + 1]

\* The while loop of evaluateSamplesMultiEnv (line 156), from rollout state st
\* to the values it ends with.
RECURSIVE MultiEnvLoop(_, _, _, _, _, _)
MultiEnvLoop(e, timeHorizon, gamma, actionTransitions, nodeObservationTransitions, st) ==
    IF (\A i \in DOMAIN st.isDones : st.isDones[i])
       \/ ~(st.currentTimestep < timeHorizon)
    THEN st.values
    ELSE MultiEnvLoop(e, timeHorizon, gamma, actionTransitions,
                      nodeObservationTransitions,
                      MultiEnvPass(e, gamma, actionTransitions,
                                   nodeObservationTransitions, st))

\* numpy mean of x[0..n-1]
Mean(x, n) == LET s == RSum(x, n) IN Rat(s[1], s[2] * n)

\* The square of numpy std of x[0..n-1] (the mean squared deviation): the
\* model carries a standard deviation by its square; sqrt is strictly
\* increasing and sqrt(0) = 0.
StdSquared(x, n) ==
    LET m == Mean(x, n)
        dev == [i \in Range(n) |-> RMul(RSub(x[i], m), RSub(x[i], m))]
    IN Mean(dev, n)

\* evaluateSamplesMultiEnv(MultiPOMDP(env, numSamples), timeHorizon,
\*                         numSimulations, actionTransitions, nodeObservationTransitions)
evaluateSamplesMultiEnv(e, timeHorizon, numSimulations, actionTransitions, nodeObservationTransitions) ==
    LET gamma == Gamma(e)
        numSamples == LastAxis2(actionTransitions)
        \* one simulation: reset, then the while loop
        oneSim == MultiEnvLoop(e, timeHorizon, gamma, actionTransitions,
                      nodeObservationTransitions,
                      [states |-> MultiPOMDP_reset(e, numSamples),
                       currentNodes |-> [i \in Range(numSamples) |-> 0],
                       values |-> [i \in Range(numSamples) |-> Zero],
                       isDones |-> [i \in Range(numSamples) |-> FALSE],
                       currentTimestep |-> 0])
        allSampleValues == [sim \in Range(numSimulations) |-> oneSim]
    IN IF numSimulations < 0
       THEN [raised |-> "ValueError", values |-> None, stdDev |-> None]
       ELSE IF numSimulations > 0 /\ numSamples > 0 /\ timeHorizon = NoneInt
       THEN \* "currentTimestep < None"
            [raised |-> "TypeError", values |-> None, stdDev |-> None]
       ELSE IF numSimulations = 0
       THEN \* the mean over an empty axis is nan
            [raised |-> "",
             values |-> [i \in Range(numSamples) |-> NaN],
             stdDev |-> [i \in Range(numSamples) |-> NaN]]
       ELSE [raised |-> "",
             values |-> [i \in Range(numSamples) |->
                 Mean([sim \in Range(numSimulations) |-> allSampleValues[sim][i]],
                      numSimulations)],
             stdDev |-> [i \in Range(numSamples) |->
                 StdSquared([sim \in Range(numSimulations) |-> allSampleValues[sim][i]],
                            numSimulations)]]

\* One pass of the while loop shared by both evaluateSample functions
\* (Algorithms.py lines 128-131, generalGDICE.py lines 220-223)
SingleEnvPass(e, gamma, actionTransitions, nodeObservationTransitions, st) ==
    LET numObs == Cardinality(DOMAIN nodeObservationTransitions)
        step == POMDP_step(e, st.state, actionTransitions[st.currentNodeIndex])
    IN      [state |-> step.state,
             currentNodeIndex |->
                 nodeObservationTransitions[PyIndex(step.obs, numObs)]
                                           [st.currentNodeIndex],
             value |-> RAdd(st.value,
                            RMul(step.reward, RPow(gamma, st.currentTimestep))),
             isDone |-> step.done,
             currentTimestep |-> st.currentTimestep + 1]

\* The while loop itself on the one environment object: from rollout state st
\* to [value, state] at the loop's end.
RECURSIVE SingleEnvLoop(_, _, _, _, _, _)
SingleEnvLoop(e, timeHorizon, gamma, actionTransitions, nodeObservationTransitions, st) ==
    IF st.isDone \/ ~(st.currentTimestep < timeHorizon)
    THEN [value |-> st.value, state |-> st.state]
    ELSE SingleEnvLoop(e, timeHorizon, gamma, actionTransitions,
                       nodeObservationTransitions,
                       SingleEnvPass(e, gamma, actionTransitions,
                                     nodeObservationTransitions, st))

\* Algorithms.evaluateSample(env, timeHorizon, numSimulations, actionTransitions,
\* nodeObservationTransitions) with the integer numSimulations of GDICEParams:
\* "for sim in numSimulations" iterates over an int.
evaluateSample(e, state, timeHorizon, numSimulations, actionTransitions, nodeObservationTransitions) ==
    IF numSimulations < 0
    THEN [raised |-> "ValueError", value |-> None, stdDev |-> None, state |-> state]
    ELSE [raised |-> "TypeError", value |-> None, stdDev |-> None, state |-> state]

\* generalGDICE.evaluateSample(env, timeHorizon, actionTransitions,
\* nodeObservationTransitions): one rollout from whatever state the
\* environment object is in; the object keeps the state the rollout ends in.
evaluateSampleGeneral(e, state, timeHorizon, actionTransitions, nodeObservationTransitions) ==
    IF timeHorizon = NoneInt \/ e.discount = None
    THEN \* "currentTimestep < None", "None ** currentTimestep"
         [raised |-> "TypeError", value |-> None, state |-> state]
    ELSE LET r == SingleEnvLoop(e, timeHorizon, e.discount, actionTransitions,
                      nodeObservationTransitions,
                      [state |-> state, currentNodeIndex |-> 0, value |-> Zero,
                       isDone |-> FALSE, currentTimestep |-> 0])
         IN [raised |-> "", value |-> r.value, state |-> r.state]

-----------------------------------------------------------------------------
(* runGDICEOnEnvironment                                                   *)

\* isinstance(parallel, type(Pool)): multiprocessing.Pool is a bound method of
\* the default context, so type(Pool) is the class of bound methods; a pool
\* object (multiprocessing.pool.Pool) is not an instance of it.
IsInstanceOfTypeOfPool(p) == p = "method"

\* "parallel is not None and isinstance(parallel, type(Pool))"
UsesPool(p) == p # "None" /\ IsInstanceOfTypeOfPool(p)

\* The pool branch (Algorithms.py lines 49-50).  A bound method has no starmap.
PoolEvaluate(p) ==
    [raised |-> "AttributeError", values |-> None, stdDev |-> None]

\* values.argsort(): every order of the sample indices in which the values
\* ascend.  The default sort kind is not stable, so equal values may come in
\* either order.  An order is a sequence of sample indices.
ArgSorts(values, n) ==
    { order \in [1..n -> Range(n)] :
        /\ \A i, j \in 1..n : i # j => order[i] # order[j]
        /\ \A i \in 1..n : i < n => ~RLess(values[order[i + 1]], values[order[i]]) }

\* a[:k] in place of a[-k:]
TailSlice_Head(a, k) == SubSeq(a, 1, IF k < 0 THEN 0 ELSE IF k > Len(a) THEN Len(a) ELSE k)

\* a[-k:] for a sequence a
TailSlice(a, k) ==
    LET n == Len(a)
        start == IF k = 0 THEN 0
                 ELSE IF k > 0 THEN (IF n - k < 0 THEN 0 ELSE n - k)
                 ELSE (IF -k > n THEN n ELSE -k)
    IN SubSeq(a, start + 1, n)

\* np.where(vals >= floor): the indices kept, applied to the index array
KeepAtLeast(indices, values, floor) ==
    SelectSeq(indices, LAMBDA i : RGeq(values[i], floor))

\* sampledActions[:, bestSampleIndices] and sampledNodes[:, :, bestSampleIndices]
TakeActions(sampledActions, indices) ==
    [n \in DOMAIN sampledActions |->
        [j \in Range(Len(indices)) |-> sampledActions[n][indices[j + 1]]]]
TakeNodes(sampledNodes, indices) ==
    [o \in DOMAIN sampledNodes |->
        [n \in DOMAIN sampledNodes[o] |->
            [j \in Range(Len(indices)) |-> sampledNodes[o][n][indices[j + 1]]]]]

\* sampledActions[:, i] and sampledNodes[:, :, i]
ColumnActions(sampledActions, i) == [n \in DOMAIN sampledActions |-> sampledActions[n][i]]
ColumnNodes(sampledNodes, i) ==
    [o \in DOMAIN sampledNodes |->
        [n \in DOMAIN sampledNodes[o] |-> sampledNodes[o][n][i]]]

\* Python truthiness of a float and of an int
TruthyFloat(x) == x # Zero
TruthyInt(n) == n # 0

\* An exception leaves runGDICEOnEnvironment: the frame's locals are gone, the
\* controller object stays as it is.
Raise(exc, logged) ==
    /\ pc' = "raised"
    /\ error' = exc
    /\ iterLog' = logged
    /\ UNCHANGED <<ctrlVars, argVars, runVars, envState, saved, calls, rollout>>

\* Lines 17-35: the two assertions, controller.reset(), the start variables.
Begin ==
    /\ pc = "start"
    /\ IF env.action_space_n # numActions \/ env.observation_space_n # numObservations
       THEN Raise("AssertionError", iterLog)
       ELSE /\ reset
            /\ IF params.numIterations < 0 \/ params.numSamples < 0
               THEN \* np.full / np.zeros with a negative dimension
                    /\ pc' = "raised"
                    /\ error' = "ValueError"
                    /\ UNCHANGED runVars
               ELSE /\ pc' = IF params.numIterations = 0 THEN "exited" ELSE "loop"
                    /\ error' = ""
                    /\ iteration' = 0
                    /\ bestActionProbs' = None
                    /\ bestNodeTransitionProbs' = None
                    /\ bestValue' = NINF
                    /\ bestValueAtEachIteration' =
                           [i \in Range(params.numIterations) |-> NaN]
                    /\ bestStdDevAtEachIteration' =
                           [i \in Range(params.numIterations) |-> NaN]
                    /\ bestValueVariance' = Zero
                    /\ worstValueOfPreviousIteration' = NINF
                    /\ allValues' = [i \in Range(params.numIterations) |->
                                        [j \in Range(params.numSamples) |-> Zero]]
                    /\ allStdDev' = [i \in Range(params.numIterations) |->
                                        [j \in Range(params.numSamples) |-> Zero]]
                    /\ estimatedConvergenceIteration' = 0
            /\ UNCHANGED <<argVars, envState, iterLog, saved, calls, rollout>>

\* The test made on the count of passes, iteration + 1, for the loop index
ShouldSave_CountsPasses(sFreq, it) == TruthyInt(sFreq) /\ (it + 1) % sFreq = 0

\* "saveFrequency and iteration % saveFrequency == 0" (Algorithms.py line 99);
\* "and" leaves the modulus alone when saveFrequency is 0
ShouldSave(sFreq, it) == TruthyInt(sFreq) /\ it % sFreq = 0

\* What saveResults is handed (Algorithms.py lines 100-101): the best record,
\* the controller as the update left it, the marker and the history
SaveRecord(it, bV, bVar, bA, bN, aP, nP, eci, hist) ==
    [iteration |-> it, bestValue |-> bV, bestValueVariance |-> bVar,
     bestActionProbs |-> bA, bestNodeTransitionProbs |-> bN,
     actionProbabilities |-> aP, nodeTransitionProbabilities |-> nP,
     estimatedConvergenceIteration |-> eci, bestValueAtEachIteration |-> hist]

\* One pass of the loop body, lines 38-101, for the loop index "iteration".
\* The variable iteration counts the passes made; the pass that ends the loop
\* (the last index, or a break) leaves pc = "exited".
Iterate ==
    /\ pc = "loop"
    /\ IF SamplingRaises(actionProbabilities, nodeTransitionProbabilities,
                         numNodes, numActions, numObservations)
       THEN Raise("ValueError", iterLog)
       ELSE
       \E sampledActions \in sampleActionFromAllNodes(actionProbabilities,
                                 numNodes, numActions, params.numSamples),
          sampledNodes \in sampleAllObservationTransitionsFromAllNodes(
                                 nodeTransitionProbabilities, numNodes,
                                 numObservations, params.numSamples) :
       LET timeHorizon == params.timeHorizon
           strategy == IF UsesPool(parallel) THEN "pool" ELSE "multiEnv"
       IN
       \E eval \in {IF UsesPool(parallel)
                    THEN PoolEvaluate(parallel)
                    ELSE evaluateSamplesMultiEnv(env, timeHorizon,
                             params.numSimulationsPerSample,
                             sampledActions, sampledNodes)} :
       IF eval.raised # ""
       THEN Raise(eval.raised, Append(iterLog,
                [strategy |-> strategy, candidates |-> -1, kept |-> -1,
                 worst |-> NaN, raised |-> eval.raised]))
       ELSE
       LET values == eval.values
           stdDev == eval.stdDev
       IN
       \E order \in ArgSorts(values, params.numSamples) :
       LET \* Find N_b best policies
           candidates == TailSlice(order, params.numBestSamples)
           nCand == Len(candidates)
       IN
       IF nCand = 0
       THEN \* bestValues[-1] of an empty array
            Raise("IndexError", Append(iterLog,
                [strategy |-> strategy, candidates |-> 0, kept |-> -1,
                 worst |-> NaN, raised |-> "IndexError"]))
       ELSE
       LET top == candidates[nCand]
           \* Save best policy (if better than overall previous)
           controllerChange == RLess(bestValue, values[top])
           newBestValue == IF controllerChange THEN values[top] ELSE bestValue
           newBestVariance == IF controllerChange THEN stdDev[top] ELSE bestValueVariance
           newBestActions == IF controllerChange
                             THEN ColumnActions(sampledActions, top)
                             ELSE bestActionProbs
           newBestNodes == IF controllerChange
                           THEN ColumnNodes(sampledNodes, top)
                           ELSE bestNodeTransitionProbs
           \* Throw away policies below the worst value of the previous iteration
           keep1 == KeepAtLeast(candidates, values, worstValueOfPreviousIteration)
           \* ... and below the value threshold
           keep2 == IF params.valueThreshold # None
                    THEN KeepAtLeast(keep1, values, params.valueThreshold)
                    ELSE keep1
       IN
       \E upd \in {updateProbabilitiesFromSamples(actionProbabilities,
                      nodeTransitionProbabilities,
                      TakeActions(sampledActions, keep2),
                      TakeNodes(sampledNodes, keep2), params.learningRate)} :
       LET entry == [strategy |-> strategy, candidates |-> nCand,
                     kept |-> Len(keep2),
                     worst |-> IF Len(keep2) = 0 THEN NaN ELSE values[keep2[1]],
                     raised |-> upd.raised]
           newHist == [bestValueAtEachIteration EXCEPT ![iteration] = newBestValue]
           \* iterBestValue was set to -inf at the top of this pass (line 39)
           iterBestValue == NINF
           stillImproving == RLess(iterBestValue, RAdd(newBestValue, convergenceThreshold))
           newECI == IF stillImproving THEN estimatedConvergenceIteration ELSE iteration
           break == ~stillImproving /\ TruthyFloat(convergenceThreshold) /\ controllerChange
           saves == ~break /\ ShouldSave(saveFrequency, iteration)
       IN
       IF upd.raised # ""
       THEN Raise(upd.raised, Append(iterLog, entry))
       ELSE
       /\ actionProbabilities' = upd.aP
       /\ nodeTransitionProbabilities' = upd.nP
       /\ UNCHANGED <<numNodes, numActions, numObservations, currentNode>>
       /\ allValues' = [allValues EXCEPT ![iteration] = values]
       /\ allStdDev' = [allStdDev EXCEPT ![iteration] = stdDev]
       /\ bestValue' = newBestValue
       /\ bestValueVariance' = newBestVariance
       /\ bestActionProbs' = newBestActions
       /\ bestNodeTransitionProbs' = newBestNodes
       /\ UNCHANGED worstValueOfPreviousIteration
       /\ bestValueAtEachIteration' = newHist
       /\ bestStdDevAtEachIteration' =
              [bestStdDevAtEachIteration EXCEPT ![iteration] = newBestVariance]
       /\ estimatedConvergenceIteration' = newECI
       /\ saved' = IF saves
                   THEN Append(saved, SaveRecord(iteration, newBestValue,
                            newBestVariance, newBestActions, newBestNodes,
                            upd.aP, upd.nP, newECI, newHist))
                   ELSE saved
       /\ iterLog' = Append(iterLog, entry)
       /\ iteration' = iteration + 1
       /\ pc' = IF break \/ iteration + 1 >= params.numIterations
                THEN "exited" ELSE "loop"
       /\ UNCHANGED <<argVars, error, envState, calls, rollout>>

\* Lines 104-106: the return
Return ==
    /\ pc = "exited"
    /\ pc' = "returned"
    /\ UNCHANGED <<ctrlVars, argVars, runVars, error, envState, iterLog, saved, calls, rollout>>

-----------------------------------------------------------------------------
(* The runs explored                                                       *)

\* FiniteStateController(numNodes, numActions, numObservations)
Construct(nN, nA, nO) ==
    /\ numNodes = nN
    /\ numActions = nA
    /\ numObservations = nO
    /\ currentNode = None
    /\ actionProbabilities = initActionNodeProbabilityTable(nN, nA)
    /\ nodeTransitionProbabilities = initObservationNodeTransitionProbabilityTable(nN, nO)

\* Before the call: nothing of the run exists yet
NoRun ==
    /\ error = ""
    /\ iteration = 0
    /\ bestActionProbs = None
    /\ bestNodeTransitionProbs = None
    /\ bestValue = NINF
    /\ bestValueVariance = Zero
    /\ bestValueAtEachIteration = None
    /\ bestStdDevAtEachIteration = None
    /\ worstValueOfPreviousIteration = NINF
    /\ allValues = None
    /\ allStdDev = None
    /\ estimatedConvergenceIteration = 0
    /\ iterLog = <<>>
    /\ saved = <<>>
    /\ calls = <<>>
    /\ rollout = <<>>

GDICEParams(nIter, nSamples, nBest, lr, vThr, nSim, tH) ==
    [numIterations |-> nIter, numSamples |-> nSamples, numBestSamples |-> nBest,
     learningRate |-> lr, valueThreshold |-> vThr,
     numSimulationsPerSample |-> nSim, timeHorizon |-> tH]

\* One call of runGDICEOnEnvironment:
\* the controller's shape, the params and the three keyword arguments
Run(shape, p, par, cThr, sFreq) ==
    [shape |-> shape, params |-> p, parallel |-> par,
     convergenceThreshold |-> cThr, saveFrequency |-> sFreq]

\* The calls explored on EnvBlind, numIterations in 1..MaxIterations throughout,
\* two samples per iteration, two simulations per sample, timeHorizon 2.
\* A one-node controller with learningRate 1/2 under
\*   - every numBestSamples in 0..3 (0, and 3 > numSamples, are out of range)
\*     with valueThreshold unset, reachable (1) and unreachable (9);
\*   - a pool object (or the Pool factory, a bound method), a convergence
\*     threshold (1, below the step from value 0 to value 2, and 3, above it),
\*     a save frequency, or the out-of-range learningRate 2, one at a time;
\* a two-node controller with learningRate 1;
\* and a controller whose action count is not the environment's.
BlindRuns ==
    { Run(<<1, 2, 1>>, GDICEParams(nIter, 2, nBest, Half, vThr, 2, 2), "None", Zero, 0) :
        nIter \in 1..MaxIterations, nBest \in 0..3, vThr \in {None, One, <<9, 1>>} }
    \cup
    { Run(<<1, 2, 1>>, GDICEParams(nIter, 2, 1, Half, None, 2, 2), "PoolObject", Zero, 0) :
        nIter \in 1..MaxIterations }
    \cup
    { Run(<<1, 2, 1>>, GDICEParams(nIter, 2, nBest, Half, None, 2, 2), "None", cThr, sFreq) :
        nIter \in 1..MaxIterations, nBest \in 1..2, sFreq \in {0, 2},
        cThr \in {One, <<3, 1>>} }
    \cup
    { Run(<<1, 2, 1>>, GDICEParams(nIter, 2, 1, Half, None, 2, 2), "None", Zero, sFreq) :
        nIter \in 1..MaxIterations, sFreq \in {1, 2} }
    \cup
    { Run(<<1, 2, 1>>, GDICEParams(nIter, 2, 1, <<2, 1>>, None, 2, 2), "None", Zero, 0) :
        nIter \in 1..MaxIterations }
    \cup
    { Run(<<2, 2, 1>>, GDICEParams(nIter, 2, nBest, One, None, 2, 2), "None", Zero, 0) :
        nIter \in 1..MaxIterations, nBest \in 1..1 }
    \cup
    { Run(<<2, 2, 1>>, GDICEParams(2, 2, 1, Half, None, 2, 2), "None", Zero, 0) }
    \cup
    { Run(<<1, 2, 1>>, GDICEParams(1, 2, 1, Half, None, 2, 2), "method", Zero, 0) }
    \cup
    { Run(<<2, 1, 1>>, GDICEParams(1, 2, 1, Half, None, 2, 2), "None", Zero, 0) }

InitRun(e, runs) ==
    /\ pc = "start"
    /\ env = e
    /\ envState = e.start
    /\ \E r \in runs :
          /\ Construct(r.shape[1], r.shape[2], r.shape[3])
          /\ params = r.params
          /\ parallel = r.parallel
          /\ convergenceThreshold = r.convergenceThreshold
          /\ saveFrequency = r.saveFrequency
    /\ NoRun

Init == InitRun(EnvBlind, BlindRuns)

Next == Begin \/ Iterate \/ Return

Spec == Init /\ [][Next]_vars

\* The scenario of a 3-node controller with 2 actions and 2 observations on
\* EnvTrivial with timeHorizon 5: one sample per iteration, learningRate 1.
TrivialRuns ==
    { Run(<<3, 2, 2>>, GDICEParams(nIter, 1, 1, One, None, 1, 5), "None", Zero, 0) :
        nIter \in {1, MaxIterations} }

InitTrivial == InitRun(EnvTrivial, TrivialRuns)

SpecTrivial == InitTrivial /\ [][Next]_vars

-----------------------------------------------------------------------------
(* The controller on its own: reset() and updateProbabilitiesFromSamples   *)
(* called directly with elite arrays                                       *)

\* Every (numNodes, k) array of actions in range
EliteActions(nN, nA, k) == [Range(nN) -> [Range(k) -> Range(nA)]]

\* Every (numObservations, numNodes, k) array of destination nodes in range
EliteNodes(nN, nO, k) == [Range(nO) -> [Range(nN) -> [Range(k) -> Range(nN)]]]

\* The learning rates tried: the ends of [0, 1] and its middle
LearningRates == {Zero, Half, One}

\* The sizes of the elite sets handed to one update
EliteCounts == 1..2

\* controller.reset()
CallReset ==
    /\ pc = "controller"
    /\ Len(calls) < MaxUpdates
    /\ reset
    /\ calls' = Append(calls, [fn |-> "reset"])
    /\ UNCHANGED <<argVars, runVars, pc, error, envState, iterLog, saved, rollout>>

\* controller.updateProbabilitiesFromSamples(actions, nodeObs,
\* params.learningRate) with k >= 1 elites, as the loop calls it
CallUpdate ==
    /\ pc = "controller"
    /\ Len(calls) < MaxUpdates
    /\ \E k \in EliteCounts, learningRate \in {params.learningRate} :
       \E actions \in EliteActions(numNodes, numActions, k),
          nodeObs \in EliteNodes(numNodes, numObservations, k) :
       \E upd \in {updateProbabilitiesFromSamples(actionProbabilities,
                      nodeTransitionProbabilities, actions, nodeObs, learningRate)} :
          /\ calls' = Append(calls, [fn |-> "updateProbabilitiesFromSamples"])
          /\ IF upd.raised # ""
             THEN /\ pc' = "raised"
                  /\ error' = upd.raised
                  /\ UNCHANGED ctrlVars
             ELSE /\ actionProbabilities' = upd.aP
                  /\ nodeTransitionProbabilities' = upd.nP
                  /\ UNCHANGED <<numNodes, numActions, numObservations, currentNode,
                                 pc, error>>
    /\ UNCHANGED <<argVars, runVars, envState, iterLog, saved, rollout>>

\* A freshly constructed controller (one node and two or three actions, two
\* nodes and one or two actions, one observation) and the learning rate of
\* the params
InitUpdate ==
    /\ pc = "controller"
    /\ env = EnvBlind
    /\ envState = EnvBlind.start
    /\ \E shape \in {<<1, 2, 1>>, <<1, 3, 1>>, <<2, 1, 1>>, <<2, 2, 1>>} :
          Construct(shape[1], shape[2], shape[3])
    /\ \E lr \in LearningRates : params = GDICEParams(0, 0, 0, lr, None, 0, 0)
    /\ parallel = "None"
    /\ convergenceThreshold = Zero
    /\ saveFrequency = 0
    /\ NoRun

NextUpdate == CallReset \/ CallUpdate

SpecUpdate == InitUpdate /\ [][NextUpdate]_vars

\* controller.updateProbabilitiesFromSamples(actions, nodeObs,
\* params.learningRate) with k >= 1 elites, the arguments kept with the call
CallUpdateTraced ==
    /\ pc = "controller"
    /\ Len(calls) < MaxCalls
    /\ \E k \in EliteCounts, learningRate \in {params.learningRate} :
       \E actions \in EliteActions(numNodes, numActions, k),
          nodeObs \in EliteNodes(numNodes, numObservations, k) :
       \E upd \in {updateProbabilitiesFromSamples(actionProbabilities,
                      nodeTransitionProbabilities, actions, nodeObs, learningRate)} :
          /\ calls' = Append(calls, [fn |-> "updateProbabilitiesFromSamples",
                                     numElites |-> k,
                                     actions |-> actions, nodeObs |-> nodeObs])
          /\ IF upd.raised # ""
             THEN /\ pc' = "raised"
                  /\ error' = upd.raised
                  /\ UNCHANGED ctrlVars
             ELSE /\ actionProbabilities' = upd.aP
                  /\ nodeTransitionProbabilities' = upd.nP
                  /\ UNCHANGED <<numNodes, numActions, numObservations, currentNode,
                                 pc, error>>
    /\ UNCHANGED <<argVars, runVars, envState, iterLog, saved, rollout>>

\* A freshly constructed controller (one node and two or three actions, or
\* two nodes and one action, one observation) and the learning rate of the
\* params
InitTraced ==
    /\ pc = "controller"
    /\ env = EnvBlind
    /\ envState = EnvBlind.start
    /\ \E shape \in {<<1, 2, 1>>, <<1, 3, 1>>, <<2, 1, 1>>} :
          Construct(shape[1], shape[2], shape[3])
    /\ \E lr \in LearningRates : params = GDICEParams(0, 0, 0, lr, None, 0, 0)
    /\ parallel = "None"
    /\ convergenceThreshold = Zero
    /\ saveFrequency = 0
    /\ NoRun

NextTraced == CallUpdateTraced

SpecTraced == InitTraced /\ [][NextTraced]_vars

-----------------------------------------------------------------------------
(* The evaluators on their own: one policy instance, one environment       *)
(* object, the evaluators called one after the other                       *)

\* Algorithms.evaluateSample(env, timeHorizon, numSimulations, policy)
CallEvaluateSample ==
    /\ pc = "evaluator"
    /\ Len(calls) < MaxCalls
    /\ \E r \in {evaluateSample(env, envState, params.timeHorizon,
                    params.numSimulationsPerSample,
                    bestActionProbs, bestNodeTransitionProbs)} :
          /\ calls' = Append(calls, [fn |-> "Algorithms.evaluateSample",
                                     raised |-> r.raised, value |-> r.value,
                                     stdDev |-> r.stdDev])
          /\ envState' = r.state
    /\ UNCHANGED <<ctrlVars, argVars, runVars, pc, error, iterLog, saved, rollout>>

\* generalGDICE.evaluateSample(env, timeHorizon, policy)
CallEvaluateSampleGeneral ==
    /\ pc = "evaluator"
    /\ Len(calls) < MaxCalls
    /\ \E r \in {evaluateSampleGeneral(env, envState, params.timeHorizon,
                    bestActionProbs, bestNodeTransitionProbs)} :
          /\ calls' = Append(calls, [fn |-> "generalGDICE.evaluateSample",
                                     raised |-> r.raised, value |-> r.value,
                                     stdDev |-> None])
          /\ envState' = r.state
    /\ UNCHANGED <<ctrlVars, argVars, runVars, pc, error, iterLog, saved, rollout>>

\* evaluateSamplesMultiEnv(MultiPOMDP(env, 1), timeHorizon, numSimulations,
\* policy[:, None]): the policy as a population of one.  The wrapper keeps its
\* own trajectory states.
CallEvaluateSamplesMultiEnv ==
    /\ pc = "evaluator"
    /\ Len(calls) < MaxCalls
    /\ \E r \in {evaluateSamplesMultiEnv(env, params.timeHorizon,
                    params.numSimulationsPerSample,
                    [n \in DOMAIN bestActionProbs |-> [i \in Range(1) |-> bestActionProbs[n]]],
                    [o \in DOMAIN bestNodeTransitionProbs |->
                       [n \in DOMAIN bestNodeTransitionProbs[o] |->
                          [i \in Range(1) |-> bestNodeTransitionProbs[o][n]]]])} :
          calls' = Append(calls, [fn |-> "evaluateSamplesMultiEnv",
                                  raised |-> r.raised,
                                  value |-> IF r.raised = "" THEN r.values[0] ELSE None,
                                  stdDev |-> IF r.raised = "" THEN r.stdDev[0] ELSE None])
    /\ UNCHANGED <<ctrlVars, argVars, runVars, pc, error, envState, iterLog, saved, rollout>>

\* A deterministic environment object in its start state and a policy
\* instance of a two-node controller: an action per node, a destination node
\* per (observation, node); two simulations per evaluation, timeHorizon 2, 3
\* or None.
InitEval ==
    /\ pc = "evaluator"
    /\ env \in {EnvBlind, EnvTrivial, EnvEpisodic}
    /\ envState = env.start
    /\ Construct(2, env.action_space_n, env.observation_space_n)
    /\ \E tH \in {2, 3, NoneInt} : params = GDICEParams(1, 1, 1, One, None, 2, tH)
    /\ parallel = "None"
    /\ convergenceThreshold = Zero
    /\ saveFrequency = 0
    /\ error = ""
    /\ iteration = 0
    /\ bestActionProbs \in [Range(2) -> Range(env.action_space_n)]
    /\ bestNodeTransitionProbs \in
           [Range(env.observation_space_n) -> [Range(2) -> Range(2)]]
    /\ bestValue = NINF
    /\ bestValueVariance = Zero
    /\ bestValueAtEachIteration = None
    /\ bestStdDevAtEachIteration = None
    /\ worstValueOfPreviousIteration = NINF
    /\ allValues = None
    /\ allStdDev = None
    /\ estimatedConvergenceIteration = 0
    /\ iterLog = <<>>
    /\ saved = <<>>
    /\ calls = <<>>
    /\ rollout = <<>>

NextEval == CallEvaluateSample \/ CallEvaluateSampleGeneral \/ CallEvaluateSamplesMultiEnv

SpecEval == InitEval /\ [][NextEval]_vars

-----------------------------------------------------------------------------
(* The batch rollout of evaluateFSCOnEnvironment on a MultiActionPOMDP,    *)
(* one environment call at a time                                          *)

\* MultiActionPOMDP.reset(): self.state, every trajectory at the start state
MultiActionPOMDP_reset(e, numTrajectories) == [i \in Range(numTrajectories) |-> e.start]

\* MultiActionPOMDP.step(actions) for an array of actions, from self.state.
\* The trajectories whose state is -1 are left out of the environment tables'
\* lookup; the new states are assigned to self.states, so self.state stays
\* as it is.  stepped names the trajectories looked up (notDoneIndices).
MultiActionPOMDP_step(e, state, actions, numTrajectories) ==
    LET doneIndices == {i \in Range(numTrajectories) : state[i] = -1}
        notDoneIndices == Range(numTrajectories) \ doneIndices
        validNewState(i) == e.T[state[i]][actions[i]]
        validObs(i) == e.O[state[i]][actions[i]][validNewState(i)]
        validReward(i) == e.R[state[i]][actions[i]][validNewState(i)][validObs(i)]
    IN IF e.episodic /\ doneIndices # {} /\ numTrajectories > 1
       THEN \* done[notDoneIndices] = self.env.D[self.state, actions]: the
            \* right side has numTrajectories entries, the left side fewer
            [raised |-> "ValueError", state |-> state, stepped |-> notDoneIndices,
             obs |-> None, rewards |-> None, done |-> None]
       ELSE [raised |-> "",
             state |-> state,
             stepped |-> notDoneIndices,
             obs |-> [i \in Range(numTrajectories) |->
                        IF i \in doneIndices THEN -1 ELSE validObs(i)],
             rewards |-> [i \in Range(numTrajectories) |->
                        IF i \in doneIndices THEN Zero ELSE validReward(i)],
             done |-> [i \in Range(numTrajectories) |->
                        IF e.episodic
                        THEN (IF i \in doneIndices THEN TRUE
                              ELSE e.D[state[i]][actions[i]])
                        ELSE FALSE]]

\* Lines 167-172 of generalGDICE.py: multiEnv.reset() and the loop's locals
RolloutReset ==
    /\ pc = "rollout-reset"
    /\ rollout' = [rollout EXCEPT
           !.state = MultiActionPOMDP_reset(env, params.numSamples),
           !.currentNodes = [i \in Range(params.numSamples) |-> 0],
           !.currentTimestep = 0,
           !.values = [i \in Range(params.numSamples) |-> Zero],
           !.isDones = [i \in Range(params.numSamples) |-> FALSE],
           !.everDone = {},
           !.stepped = {}]
    /\ pc' = "rollout-loop"
    /\ UNCHANGED <<ctrlVars, argVars, runVars, error, envState, iterLog, saved, calls>>

\* "while not all(isDones) and currentTimestep < timeHorizon"
RolloutContinues ==
    /\ ~(\A i \in Range(params.numSamples) : rollout.isDones[i])
    /\ rollout.currentTimestep < params.timeHorizon

\* One pass of the while loop, lines 174-177
RolloutPass ==
    /\ pc = "rollout-loop"
    /\ RolloutContinues
    /\ \E step \in {MultiActionPOMDP_step(env, rollout.state,
                       [i \in Range(params.numSamples) |->
                           rollout.sampledActions[rollout.currentNodes[i]][i]],
                       params.numSamples)} :
          IF step.raised # ""
          THEN /\ pc' = "raised"
               /\ error' = step.raised
               /\ UNCHANGED rollout
          ELSE /\ rollout' = [rollout EXCEPT
                      !.state = step.state,
                      !.currentNodes = [i \in Range(params.numSamples) |->
                          rollout.sampledNodes
                              [PyIndex(step.obs[i], numObservations)]
                              [rollout.currentNodes[i]][i]],
                      !.values = [i \in Range(params.numSamples) |->
                          RAdd(rollout.values[i],
                               RMul(step.rewards[i],
                                    RPow(env.discount, rollout.currentTimestep)))],
                      !.isDones = step.done,
                      !.currentTimestep = rollout.currentTimestep + 1,
                      !.everDone = {i \in Range(params.numSamples) : rollout.isDones[i]}
                                   \cup rollout.everDone,
                      !.stepped = step.stepped]
               /\ UNCHANGED <<pc, error>>
    /\ UNCHANGED <<ctrlVars, argVars, runVars, envState, iterLog, saved, calls>>

\* The loop's test fails: values are the returns of the population
RolloutExit ==
    /\ pc = "rollout-loop"
    /\ ~RolloutContinues
    /\ pc' = "rollout-done"
    /\ UNCHANGED <<ctrlVars, argVars, runVars, error, envState, iterLog, saved, calls, rollout>>

\* A two-node controller's population of two samples on an environment with
\* one observation, timeHorizon 3; the wrapper as its constructor leaves it.
InitRollout ==
    /\ pc = "rollout-reset"
    /\ env \in {EnvEpisodic, EnvBlind}
    /\ envState = env.start
    /\ Construct(2, env.action_space_n, env.observation_space_n)
    /\ params = GDICEParams(1, 2, 1, One, None, 1, 3)
    /\ parallel = "None"
    /\ convergenceThreshold = Zero
    /\ saveFrequency = 0
    /\ error = ""
    /\ iteration = 0
    /\ bestActionProbs = None
    /\ bestNodeTransitionProbs = None
    /\ bestValue = NINF
    /\ bestValueVariance = Zero
    /\ bestValueAtEachIteration = None
    /\ bestStdDevAtEachIteration = None
    /\ worstValueOfPreviousIteration = NINF
    /\ allValues = None
    /\ allStdDev = None
    /\ estimatedConvergenceIteration = 0
    /\ iterLog = <<>>
    /\ saved = <<>>
    /\ calls = <<>>
    /\ \E sampledActions \in [Range(2) -> [Range(2) -> Range(env.action_space_n)]],
          sampledNodes \in [Range(env.observation_space_n) ->
                               [Range(2) -> [Range(2) -> Range(2)]]] :
          rollout = [sampledActions |-> sampledActions,
                     sampledNodes |-> sampledNodes,
                     state |-> MultiActionPOMDP_reset(env, 2),
                     currentNodes |-> None, currentTimestep |-> 0,
                     values |-> None, isDones |-> None,
                     everDone |-> {}, stepped |-> {}]

NextRollout == RolloutReset \/ RolloutPass \/ RolloutExit

SpecRollout == InitRollout /\ [][NextRollout]_vars

-----------------------------------------------------------------------------
(* The properties                                                          *)

\* C1: whenever a pass of the loop ends its filtering with zero elites, the
\* update is a no-op: both tables after the pass equal the tables before it,
\* nothing is raised, and the loop goes on (to the next pass, or to the
\* return after the last one).
C1_ZeroElitesIsNoOp ==
    [][(pc = "loop" /\ Len(iterLog') = Len(iterLog) + 1
        /\ iterLog'[Len(iterLog')].kept = 0)
       => /\ pc' # "raised"
          /\ actionProbabilities' = actionProbabilities
          /\ nodeTransitionProbabilities' = nodeTransitionProbabilities
          /\ iteration' = iteration + 1
          /\ (pc' = "loop" \/ iteration' = params.numIterations)]_vars

\* C2: with numBestSamples = 0 a pass selects no elite (no candidate is
\* ranked in) and leaves both tables as they were.
C2_NoEliteWhenNumBestSamplesZero ==
    [][(pc = "loop" /\ params.numBestSamples = 0
        /\ Len(iterLog') = Len(iterLog) + 1)
       => /\ iterLog'[Len(iterLog')].candidates = 0
          /\ actionProbabilities' = actionProbabilities
          /\ nodeTransitionProbabilities' = nodeTransitionProbabilities]_vars

\* C3: with valueThreshold unset, the worst accepted elite value of a pass is
\* never below the worst accepted elite value of an earlier pass.
C3_WorstAcceptedNonDecreasing ==
    params.valueThreshold = None =>
        \A i, j \in 1..Len(iterLog) :
            (i < j /\ iterLog[i].kept > 0 /\ iterLog[j].kept > 0)
                => ~RLess(iterLog[j].worst, iterLog[i].worst)

\* C4: with convergenceThreshold = 0, once a pass j (1 <= j < numIterations - 1)
\* is the first to leave the best value where the pass before left it, the
\* loop has ended with that pass (no later pass is made) and the convergence
\* marker names the last improving pass j - 1 or the pass j that found out.
C4_StopsWhenBestValueStopsImproving ==
    (convergenceThreshold = Zero /\ pc \in {"loop", "exited", "returned"}) =>
        \A j \in 1..(iteration - 1) :
            (/\ j < params.numIterations - 1
             /\ bestValueAtEachIteration[j] = bestValueAtEachIteration[j - 1]
             /\ \A i \in 1..(j - 1) :
                    bestValueAtEachIteration[i] # bestValueAtEachIteration[i - 1])
            => /\ iteration = j + 1
               /\ pc # "loop"
               /\ estimatedConvergenceIteration \in {j - 1, j}

\* C5: after reset() and after every update with a non-empty elite set and a
\* learning rate in [0, 1], no entry of either table is negative, every row of
\* actionProbabilities sums to 1 and every slice of
\* nodeTransitionProbabilities over the destination nodes sums to 1.
C5_TablesStayDistributions ==
    /\ pc = "controller"
    /\ \A n \in Range(numNodes) :
          /\ \A a \in Range(numActions) : RGeq(actionProbabilities[n][a], Zero)
          /\ RSum(actionProbabilities[n], numActions) = One
    /\ \A s \in Range(numNodes), o \in Range(numObservations) :
          /\ \A d \in Range(numNodes) :
                RGeq(nodeTransitionProbabilities[s][d][o], Zero)
          /\ RSum([d \in Range(numNodes) |-> nodeTransitionProbabilities[s][d][o]],
                  numNodes) = One

\* Two updates with learning rate 1/2 have moved both tables of the
\* two-node, two-action controller off the uniform distribution.
C5_UpdatedTwice ==
    /\ Len(calls) = 2
    /\ \A i \in 1..2 : calls[i].fn = "updateProbabilitiesFromSamples"
    /\ params.learningRate = Half
    /\ numNodes = 2 /\ numActions = 2
    /\ actionProbabilities[0][0] = <<7, 8>>
    /\ nodeTransitionProbabilities[1][0][0] = <<1, 8>>

\* C6: on EnvTrivial with timeHorizon 5 the run of the 3-node, 2-action,
\* 2-observation controller raises nothing, the best value recorded for every
\* pass made is exactly 5, and the best value the run ends with is exactly 5.
C6_TrivialBestValueIsFive ==
    /\ pc # "raised"
    /\ pc \in {"loop", "exited", "returned"} =>
          \A i \in Range(iteration) : bestValueAtEachIteration[i] = <<5, 1>>
    /\ pc \in {"exited", "returned"} =>
          /\ iteration = params.numIterations
          /\ bestValue = <<5, 1>>

\* A run has made all its passes and returned best value 5.
C6_ReturnedFive ==
    /\ pc = "returned"
    /\ iteration = params.numIterations
    /\ bestValue = <<5, 1>>
    /\ bestValueAtEachIteration[iteration - 1] = <<5, 1>>

\* C7: two successive evaluations of the same policy by the same
\* single-trajectory evaluator on the same environment object both return,
\* and return the same value.
C7_SameReturnTwice ==
    \A i \in 1..(Len(calls) - 1) :
        (/\ calls[i].fn = calls[i + 1].fn
         /\ calls[i].fn \in {"Algorithms.evaluateSample", "generalGDICE.evaluateSample"})
        => /\ calls[i].raised = ""
           /\ calls[i + 1].raised = ""
           /\ calls[i + 1].value = calls[i].value

\* C8: for the same policy, timeHorizon, numSimulations and environment,
\* evaluateSample and evaluateSamplesMultiEnv both return, with the same mean
\* value and (the environment being deterministic) standard deviation 0.
C8_EvaluatorsAgree ==
    \A i, j \in 1..Len(calls) :
        (/\ calls[i].fn = "Algorithms.evaluateSample"
         /\ calls[j].fn = "evaluateSamplesMultiEnv")
        => /\ calls[i].raised = ""
           /\ calls[j].raised = ""
           /\ calls[i].value = calls[j].value
           /\ calls[i].stdDev = Zero
           /\ calls[j].stdDev = Zero

\* C9: every pass of a run that was handed a pool object evaluates with the
\* pool strategy, and every pass of a run without one with the vectorized
\* strategy.
C9_PoolChoosesStrategy ==
    \A i \in 1..Len(iterLog) :
        iterLog[i].strategy = (IF parallel = "None" THEN "multiEnv" ELSE "pool")

\* C10: a call whose params have learningRate outside [0, 1], numBestSamples
\* above numSamples, or a count that is not positive, fails before the
\* controller is reset and never enters the loop.
C10_ParamsValidatedBeforeLoop ==
    (\/ RLess(params.learningRate, Zero)
     \/ RLess(One, params.learningRate)
     \/ params.numBestSamples > params.numSamples
     \/ params.numIterations <= 0
     \/ params.numSamples <= 0
     \/ params.numBestSamples <= 0
     \/ params.numSimulationsPerSample <= 0)
    => /\ pc \in {"start", "raised"}
       /\ iterLog = <<>>

\* C11: in a run that has raised nothing, saveResults has been invoked once
\* for every pass made whose index is a multiple of a non-zero saveFrequency
\* (index 0 included), in the order of the passes, and for no other pass; each
\* invocation was handed the best value and the history as they stood at the
\* end of its pass, and the one of the pass just made holds the best record
\* and the controller as that pass's update left them.
C11_SavedAtMultiplesOfSaveFrequency ==
    pc \in {"loop", "exited", "returned"} =>
        LET due == {i \in Range(iteration) :
                        saveFrequency # 0 /\ i % saveFrequency = 0}
        IN /\ Len(saved) = Cardinality(due)
           /\ \A k \in 1..Len(saved) :
                 LET r == saved[k]
                     i == r.iteration
                 IN /\ i \in due
                    /\ k > 1 => saved[k - 1].iteration < i
                    /\ r.bestValue = bestValueAtEachIteration[i]
                    /\ r.bestValueAtEachIteration =
                           [j \in Range(params.numIterations) |->
                               IF j <= i THEN bestValueAtEachIteration[j] ELSE NaN]
                    /\ i = iteration - 1 =>
                          /\ r.bestValue = bestValue
                          /\ r.bestValueVariance = bestValueVariance
                          /\ r.bestActionProbs = bestActionProbs
                          /\ r.bestNodeTransitionProbs = bestNodeTransitionProbs
                          /\ r.actionProbabilities = actionProbabilities
                          /\ r.nodeTransitionProbabilities = nodeTransitionProbabilities

\* A run of three passes with saveFrequency 2 has returned: saved after
\* passes 0 and 2, not after pass 1.
C11_SavedAtZeroAndTwo ==
    /\ pc = "returned"
    /\ saveFrequency = 2
    /\ iteration = 3
    /\ Len(saved) = 2
    /\ saved[1].iteration = 0
    /\ saved[2].iteration = 2

\* C12: with timeHorizon None on an episodic environment, evaluateSample and
\* evaluateSamplesMultiEnv return, and return what the rollout has accumulated
\* when the episode ends: the value of a rollout whose step limit (the number
\* of states) the episode cannot outlast.
C12_NoHorizonRunsToEpisodeEnd ==
    (params.timeHorizon = NoneInt /\ env.episodic) =>
        \A i \in 1..Len(calls) :
            calls[i].fn \in {"Algorithms.evaluateSample", "evaluateSamplesMultiEnv"}
            => /\ calls[i].raised = ""
               /\ calls[i].value =
                      evaluateSamplesMultiEnv(env, env.numStates,
                          params.numSimulationsPerSample,
                          [n \in DOMAIN bestActionProbs |->
                              [k \in Range(1) |-> bestActionProbs[n]]],
                          [o \in DOMAIN bestNodeTransitionProbs |->
                              [n \in DOMAIN bestNodeTransitionProbs[o] |->
                                  [k \in Range(1) |-> bestNodeTransitionProbs[o][n]]]]
                      ).values[0]

\* C13: with a non-zero convergenceThreshold, the first pass j >= 1 that
\* replaced the best record (the controller changed) while raising the best
\* value over the previous pass's by no more than the threshold has set
\* estimatedConvergenceIteration to j and ended the loop: no later pass is made.
C13_StopsAtConvergence ==
    (convergenceThreshold # Zero /\ pc \in {"loop", "exited", "returned"}) =>
        \A j \in 1..(iteration - 1) :
            LET Converges(i) ==
                    /\ RLess(bestValueAtEachIteration[i - 1], bestValueAtEachIteration[i])
                    /\ ~RLess(convergenceThreshold,
                              RSub(bestValueAtEachIteration[i],
                                   bestValueAtEachIteration[i - 1]))
            IN (Converges(j) /\ \A i \in 1..(j - 1) : ~Converges(i))
               => /\ estimatedConvergenceIteration = j
                  /\ iteration = j + 1
                  /\ pc # "loop"

\* C14: in every pass of the batch rollout, a trajectory that was reported
\* done at an earlier pass is not among the trajectories the environment
\* steps and its accumulated return stays as it was, while every trajectory
\* never reported done is stepped.
C14_DoneTrajectoriesAreExcluded ==
    [][(pc = "rollout-loop" /\ pc' = "rollout-loop"
        /\ rollout'.currentTimestep = rollout.currentTimestep + 1)
       => \A i \in Range(params.numSamples) :
             IF i \in rollout'.everDone
             THEN /\ i \notin rollout'.stepped
                  /\ rollout'.values[i] = rollout.values[i]
             ELSE i \in rollout'.stepped]_vars

\* C15: after every pass made, bestValue is the largest value of all samples
\* evaluated so far; the history of best values never decreases and first
\* holds bestValue at the pass whose samples first reached it; the best
\* policy, evaluated again, has bestValue as its return and bestValueVariance
\* as its spread; and a pass replaces the best policy or its spread only when
\* it raises bestValue.
C15_BestRecordIsRunningMaximum ==
    /\ [](pc \in {"loop", "exited", "returned"} /\ iteration >= 1 =>
            LET passes == Range(iteration)
                samples == Range(params.numSamples)
                reached(i) == \E k \in samples : allValues[i][k] = bestValue
                again == evaluateSamplesMultiEnv(env, params.timeHorizon,
                             params.numSimulationsPerSample,
                             [n \in DOMAIN bestActionProbs |->
                                 [k \in Range(1) |-> bestActionProbs[n]]],
                             [o \in DOMAIN bestNodeTransitionProbs |->
                                 [n \in DOMAIN bestNodeTransitionProbs[o] |->
                                     [k \in Range(1) |-> bestNodeTransitionProbs[o][n]]]])
            IN /\ \E i \in passes : reached(i)
               /\ \A i \in passes, k \in samples : ~RLess(bestValue, allValues[i][k])
               /\ \A i \in passes :
                     /\ i > 0 => ~RLess(bestValueAtEachIteration[i],
                                        bestValueAtEachIteration[i - 1])
                     /\ bestValueAtEachIteration[i] = bestValue
                            <=> \E j \in passes : j <= i /\ reached(j)
               /\ again.values[0] = bestValue
               /\ again.stdDev[0] = bestValueVariance)
    /\ [][(pc = "loop" /\ iteration >= 1
           /\ \/ bestActionProbs' # bestActionProbs
              \/ bestNodeTransitionProbs' # bestNodeTransitionProbs
              \/ bestValueVariance' # bestValueVariance)
          => RLess(bestValue, bestValue')]_vars

\* A run of three passes has returned: pass 1 raised the best value over
\* pass 0's, and pass 2 drew a sample worth less than the best.
C15_ImprovedThenDrewWorse ==
    /\ pc = "returned"
    /\ iteration = 3
    /\ RLess(bestValueAtEachIteration[0], bestValueAtEachIteration[1])
    /\ \E k \in Range(params.numSamples) : RLess(allValues[2][k], bestValue)

\* C16: a call of updateProbabilitiesFromSamples with k >= 1 elites raises
\* nothing and leaves actionProbabilities[n][a] = (1 - lr) * old + lr * c / k,
\* c the number of elites with action a at node n, and
\* nodeTransitionProbabilities[s][d][o] = (1 - lr) * old + lr * c / k, c the
\* number of elites going from s to d on o; an entry no elite chose (c = 0)
\* is the old one times (1 - lr).
C16_UpdateIsMixWithEliteFrequencies ==
    [][(pc = "controller" /\ Len(calls') = Len(calls) + 1)
       => LET call == calls'[Len(calls')]
              k == call.numElites
              lr == params.learningRate
              mix(old, c) == RAdd(RMul(RSub(One, lr), old), RMul(lr, Rat(c, k)))
          IN /\ k >= 1
             /\ pc' = "controller"
             /\ \A n \in Range(numNodes), a \in Range(numActions) :
                   LET c == Cardinality({i \in Range(k) : call.actions[n][i] = a})
                   IN /\ actionProbabilities'[n][a] = mix(actionProbabilities[n][a], c)
                      /\ c = 0 => actionProbabilities'[n][a] =
                             RMul(actionProbabilities[n][a], RSub(One, lr))
             /\ \A s \in Range(numNodes), d \in Range(numNodes),
                   o \in Range(numObservations) :
                   LET c == Cardinality({i \in Range(k) : call.nodeObs[o][s][i] = d})
                   IN /\ nodeTransitionProbabilities'[s][d][o] =
                             mix(nodeTransitionProbabilities[s][d][o], c)
                      /\ c = 0 => nodeTransitionProbabilities'[s][d][o] =
                             RMul(nodeTransitionProbabilities[s][d][o], RSub(One, lr))]_vars

\* Two updates with learning rate 1/2 of the one-node, three-action
\* controller, each by two elites that chose action 0: 1/3 has become 2/3 and
\* then 5/6 there, and 1/6 and then 1/12 at the two actions no elite chose.
C16_ElitesChoseActionZeroTwice ==
    /\ Len(calls) = 2
    /\ \A i \in 1..2 : calls[i].numElites = 2
    /\ params.learningRate = Half
    /\ numNodes = 1 /\ numActions = 3
    /\ actionProbabilities[0][0] = <<5, 6>>
    /\ actionProbabilities[0][1] = <<1, 12>>
    /\ actionProbabilities[0][2] = <<1, 12>>

=============================================================================
